---- MODULE Spec2Model ----
(***************************************************************************)
(* Model of the kivik client facade (kivik.go), the PouchDB driver's       *)
(* database lifecycle (driver/pouchdb/pouchdb.go), the HTTP basic          *)
(* authenticator (auth/basic/basic.go), the kivik server's configuration   *)
(* expectations (test/server.go) and the memory driver's AllDocs test      *)
(* (driver/memory/alldocs_test.go).                                        *)
(*                                                                         *)
(* Go values are written as follows: a nil error is Nil, an error is the   *)
(* name of its status; a string that the code inspects character by        *)
(* character (a database name) is a sequence of one-character strings; a   *)
(* map[string]interface{} is a function whose DOMAIN is the set of keys    *)
(* (a nil map and an empty map are both the empty function).               *)
(***************************************************************************)
EXTENDS Integers, Sequences, FiniteSets, TLC

VARIABLES
  drivers,    \* kivik.go:44 drivers: registered name -> driver
  client,     \* the *Client the caller holds (kivik.go:16-20)
  result,     \* what the last facade call returned to its caller
  calls,      \* the calls the last facade call made on the driver (client)
  localDBs,   \* databases of the in-process PouchDB store
  remoteDBs,  \* databases of the remote server the DSN names
  callers,    \* concurrent callers of client.CreateDBContext
  config,     \* the server's configuration: section -> key -> value
  authReq,    \* the last Authenticate call of the server and its outcome
  response,   \* the last configuration response of the server
  docs,       \* document ids stored in the memory driver's database
  rows,       \* the rows not yet returned by the open AllDocs iteration
  ids,        \* TestAllDocs: the ids collected so far
  msg,        \* TestAllDocs: the error messages (call, rows)
  present,    \* the documents present when AllDocs was last called
  phase       \* TestAllDocs: position in the test body

vars == <<drivers, client, result, calls, localDBs, remoteDBs, callers,
          config, authReq, response, docs, rows, ids, msg, present, phase>>

facadeVars == <<drivers, client, result, calls>>
storeVars == <<localDBs, remoteDBs>>
concVars == <<callers>>
serverVars == <<config, authReq, response>>
memoryVars == <<docs, rows, ids, msg, present, phase>>

(***************************************************************************)
(* Bounds of the model.                                                    *)
(***************************************************************************)
MaxOptSets == 2    \* option sets passed to one facade call
MaxCount == 1      \* largest count passed to UUIDs
NumCallers == 2    \* concurrent callers of CreateDBContext
MaxDocs == 4       \* documents of the memory database

Nil == "nil"

(***************************************************************************)
(* Options (kivik.go:23) and their merge.                                  *)
(***************************************************************************)
OptKeys == {"skip_setup", "limit"}

\* interface{} values: the nil interface, and non-nil interfaces holding
\* false (a zero value, as are 0 and the empty string) and true.
OptValues == {"nil", "false", "true"}

Options == UNION {[D -> OptValues] : D \in SUBSET OptKeys}

NoOptions == [k \in {} |-> "nil"]

\* mergo's emptiness test on a map element of static type interface{}: the
\* element's reflect.Kind is Interface, which is empty exactly when nil.
isEmptyValue(v) == v = "nil"

\* mergo.MergeWithOverwrite(&dst, src) on two maps: every key of src whose
\* element is not nil (nil elements are skipped) and not empty is set in dst.
MergeWithOverwrite(dst, src) ==
  LET set == {k \in DOMAIN src : ~isEmptyValue(src[k])}
  IN  [k \in (DOMAIN dst) \cup set |-> IF k \in set THEN src[k] ELSE dst[k]]

RECURSIVE mergeFrom(_, _, _)
mergeFrom(options, otherOpts, i) ==
  IF i > Len(otherOpts) THEN options
  ELSE mergeFrom(MergeWithOverwrite(options, otherOpts[i]), otherOpts, i + 1)

\* kivik.go:25-33. MergeWithOverwrite returns an error only for arguments that
\* are nil interfaces, of different types, or neither structs nor maps; two
\* Options are none of these, so err is nil.
mergeOptions(otherOpts) ==
  [opts |-> mergeFrom(NoOptions, otherOpts, 1), err |-> Nil]

RECURSIVE SeqsUpTo(_, _)
SeqsUpTo(S, n) ==
  IF n = 0 THEN {<<>>}
  ELSE LET shorter == SeqsUpTo(S, n - 1)
       IN  shorter \cup {Append(s, x) : s \in {t \in shorter : Len(t) = n - 1}, x \in S}

OptSeqs == SeqsUpTo(Options, MaxOptSets)

(***************************************************************************)
(* Data source names and the PouchDB driver's constructor.                 *)
(***************************************************************************)
DSNs == {"", "http://host/", "http://user:pw@host/", ":bad"}

NilURL == [str |-> "<nil>", user |-> FALSE]

\* net/url.Parse on the data source names above: the URL without its
\* userinfo, and whether it carries userinfo.
urlParse(dsn) ==
  CASE dsn = "http://host/" -> [err |-> Nil, url |-> [str |-> "http://host/", user |-> FALSE]]
    [] dsn = "http://user:pw@host/" -> [err |-> Nil, url |-> [str |-> "http://host/", user |-> TRUE]]
    [] OTHER -> [err |-> "InvalidDSN", url |-> NilURL]

Capabilities == {"UUIDer", "Cluster", "LogReader", "Authenticator"}

\* The capability sets of the client types tried: none, each one alone, all.
CapSets == {{}, Capabilities} \cup {{c} : c \in Capabilities}

NoDriverClient == [driver |-> "none", dsn |-> NilURL, caps |-> {}]

\* pouchdb.go:28-58. authOK is the outcome of BasicAuth.authenticate; caps are
\* the optional driver interfaces the returned client type implements.
NewClientContext(dsn, authOK, caps) ==
  LET parsed == IF dsn # "" THEN urlParse(dsn) ELSE [err |-> Nil, url |-> NilURL]
      user == parsed.url.user
      c == [driver |-> "PouchDriver", dsn |-> [parsed.url EXCEPT !.user = FALSE], caps |-> caps]
  IN  IF parsed.err # Nil THEN [client |-> NoDriverClient, err |-> "InvalidDSN"]
      ELSE IF user /\ ~authOK THEN [client |-> NoDriverClient, err |-> "Unauthorized"]
      ELSE [client |-> c, err |-> Nil]

\* pouchdb.go:134-136
isRemote(c) == c.dsn # NilURL

(***************************************************************************)
(* The driver registry and NewContext.                                     *)
(***************************************************************************)
DriverNames == {"pouch", "memory", "couch"}

\* The names some package registers; "couch" is never registered.
RegisteredNames == {"pouch", "memory"}

Drivers == {"PouchDriver", "MemoryDriver"}

NoClient == [valid |-> FALSE, dsn |-> "", driverName |-> "", driverClient |-> NoDriverClient]

NoResult == [op |-> "none", arg |-> "none", err |-> Nil, val |-> "none"]

\* kivik.go:47 fmt.Errorf("kivik: unknown driver %q (forgotten import?)", driverName)
unknownDriver(driverName) ==
  CASE driverName = "pouch" -> "kivik: unknown driver pouch (forgotten import?)"
    [] driverName = "memory" -> "kivik: unknown driver memory (forgotten import?)"
    [] driverName = "couch" -> "kivik: unknown driver couch (forgotten import?)"

\* The constructor of a registered driver. The memory driver's constructor
\* takes no data source and cannot fail.
Construct(driveri, dsn, authOK, caps) ==
  IF driveri = "PouchDriver" THEN NewClientContext(dsn, authOK, caps)
  ELSE [client |-> [driver |-> driveri, dsn |-> NilURL, caps |-> caps], err |-> Nil]

\* kivik.Register(name, driver): pouchdb.go:22-24 registers "pouch". A
\* duplicate name panics and registers nothing.
Register(name, driver) ==
  /\ name \notin DOMAIN drivers
  /\ drivers' = [n \in (DOMAIN drivers) \cup {name} |-> IF n = name THEN driver ELSE drivers[n]]
  /\ UNCHANGED <<client, result, calls>>
  /\ UNCHANGED <<storeVars, concVars, serverVars, memoryVars>>

NewContextNoLookup(driverName, dataSourceName, authOK, caps) ==
  LET r == Construct("PouchDriver", dataSourceName, authOK, caps)
  IN  /\ calls' = <<[method |-> "NewClientContext", target |-> "PouchDriver",
                     arg |-> dataSourceName, ret |-> r.err, val |-> r.client]>>
      /\ IF r.err # Nil
         THEN /\ result' = [op |-> "NewContext", arg |-> <<driverName, dataSourceName>>, err |-> r.err, val |-> NoClient]
              /\ UNCHANGED client
         ELSE LET c == [valid |-> TRUE, dsn |-> dataSourceName, driverName |-> driverName,
                        driverClient |-> r.client]
              IN  /\ result' = [op |-> "NewContext", arg |-> <<driverName, dataSourceName>>, err |-> Nil, val |-> c]
                  /\ client' = c
      /\ UNCHANGED drivers
      /\ UNCHANGED <<storeVars, concVars, serverVars, memoryVars>>

\* kivik.go:42-58
NewContext(driverName, dataSourceName, authOK, caps) ==
  LET ok == driverName \in DOMAIN drivers
  IN  /\ IF ~ok
         THEN /\ result' = [op |-> "NewContext", arg |-> <<driverName, dataSourceName>>,
                            err |-> unknownDriver(driverName), val |-> NoClient]
              /\ calls' = <<>>
              /\ UNCHANGED client
         ELSE LET driveri == drivers[driverName]
                  r == Construct(driveri, dataSourceName, authOK, caps)
              IN  /\ calls' = <<[method |-> "NewClientContext", target |-> driveri,
                                 arg |-> dataSourceName, ret |-> r.err, val |-> r.client]>>
                  /\ IF r.err # Nil
                     THEN /\ result' = [op |-> "NewContext", arg |-> <<driverName, dataSourceName>>,
                                        err |-> r.err, val |-> NoClient]
                          /\ UNCHANGED client
                     ELSE LET c == [valid |-> TRUE, dsn |-> dataSourceName,
                                    driverName |-> driverName, driverClient |-> r.client]
                          IN  /\ result' = [op |-> "NewContext", arg |-> <<driverName, dataSourceName>>,
                                            err |-> Nil, val |-> c]
                              /\ client' = c
      /\ UNCHANGED drivers
      /\ UNCHANGED <<storeVars, concVars, serverVars, memoryVars>>

\* kivik.go:61-63
Driver(c) == c.driverName

\* kivik.go:66-68
DSN(c) == c.dsn

(***************************************************************************)
(* Optional capabilities of the driver client (kivik.go:116-165, 215-228). *)
(* ret is what the driver client returns when the call reaches it.         *)
(***************************************************************************)
BackendRets == {[err |-> Nil, val |-> "value"], [err |-> "InternalServerError", val |-> "none"]}

Counts == -1 .. MaxCount

Forward(op, method, arg, ret) ==
  /\ calls' = <<[method |-> method, target |-> client.driverClient.driver, arg |-> arg, ret |-> ret.err, val |-> ret.val]>>
  /\ result' = [op |-> op, arg |-> arg, err |-> ret.err, val |-> ret.val]

Refuse(op, arg, err) ==
  /\ calls' = <<>>
  /\ result' = [op |-> op, arg |-> arg, err |-> err, val |-> "none"]

UUIDsContextUnprobed(count, ret) ==
  /\ client.valid
  /\ IF count < 0 THEN Refuse("UUIDs", count, "BadRequest")
     ELSE Forward("UUIDs", "UUIDsContext", count, ret)
  /\ UNCHANGED <<drivers, client>>
  /\ UNCHANGED <<storeVars, concVars, serverVars, memoryVars>>

\* kivik.go:124-132
UUIDsContext(count, ret) ==
  /\ client.valid
  /\ IF count < 0 THEN Refuse("UUIDs", count, "BadRequest")
     ELSE IF "UUIDer" \in client.driverClient.caps
     THEN Forward("UUIDs", "UUIDsContext", count, ret)
     ELSE Refuse("UUIDs", count, "NotImplemented")
  /\ UNCHANGED <<drivers, client>>
  /\ UNCHANGED <<storeVars, concVars, serverVars, memoryVars>>

\* kivik.go:142-147
MembershipContext(ret) ==
  /\ client.valid
  /\ IF "Cluster" \in client.driverClient.caps
     THEN Forward("Membership", "MembershipContext", 0, ret)
     ELSE Refuse("Membership", 0, "NotImplemented")
  /\ UNCHANGED <<drivers, client>>
  /\ UNCHANGED <<storeVars, concVars, serverVars, memoryVars>>

\* kivik.go:160-165
LogContext(length, ret) ==
  /\ client.valid
  /\ IF "LogReader" \in client.driverClient.caps
     THEN Forward("Log", "LogContext", length, ret)
     ELSE Refuse("Log", length, "NotImplemented")
  /\ UNCHANGED <<drivers, client>>
  /\ UNCHANGED <<storeVars, concVars, serverVars, memoryVars>>

\* kivik.go:223-228
AuthenticateContext(a, ret) ==
  /\ client.valid
  /\ IF "Authenticator" \in client.driverClient.caps
     THEN Forward("Authenticate", "AuthenticateContext", a, ret)
     ELSE Refuse("Authenticate", a, "NotImplemented")
  /\ UNCHANGED <<drivers, client>>
  /\ UNCHANGED <<storeVars, concVars, serverVars, memoryVars>>

\* The capability each optional facade operation probes for.
CapabilityOf(op) ==
  CASE op = "UUIDs" -> "UUIDer"
    [] op = "Membership" -> "Cluster"
    [] op = "Log" -> "LogReader"
    [] op = "Authenticate" -> "Authenticator"

CapabilityOps == {"UUIDs", "Membership", "Log", "Authenticate"}

MethodOf(op) ==
  CASE op = "UUIDs" -> "UUIDsContext"
    [] op = "Membership" -> "MembershipContext"
    [] op = "Log" -> "LogContext"
    [] op = "Authenticate" -> "AuthenticateContext"

InitOthers ==
  /\ localDBs = {} /\ remoteDBs = {}
  /\ callers = <<>>
  /\ config = <<>> /\ authReq = <<>> /\ response = <<>>
  /\ docs = {} /\ rows = <<>> /\ ids = <<>> /\ msg = <<>> /\ present = {} /\ phase = "none"

InitFacade ==
  /\ drivers = <<>>
  /\ client = NoClient
  /\ result = NoResult
  /\ calls = <<>>
  /\ InitOthers

NextFacade ==
  \/ \E name \in RegisteredNames, d \in Drivers : Register(name, d)
  \/ \E name \in DriverNames, dsn \in DSNs, authOK \in BOOLEAN, caps \in CapSets :
       NewContext(name, dsn, authOK, caps)
  \/ \E count \in Counts, ret \in BackendRets : UUIDsContext(count, ret)
  \/ \E ret \in BackendRets : MembershipContext(ret)
  \/ \E length \in 0 .. 1, ret \in BackendRets : LogContext(length, ret)
  \/ \E ret \in BackendRets : AuthenticateContext(0, ret)

SpecFacade == InitFacade /\ [][NextFacade]_vars

(***************************************************************************)
(* Database names and the PouchDB engine behind the driver.                *)
(***************************************************************************)
\* The names CreateDB is called with: names the pattern of kivik.go:182
\* matches, and names it rejects for being empty, for their first character
\* (a digit, an upper-case letter, a special character) or for a later one
\* (an upper-case letter, a space).
Names ==
  {<<"a">>, <<"a", "0">>, <<"z", "_", "$">>, <<"a", "/", "b">>,
   <<>>, <<"0", "a">>, <<"A">>, <<"_", "a">>, <<"a", "A">>, <<"a", " ", "b">>}

LowerCase == {"a", "b", "c", "d", "e", "f", "g", "h", "i", "j", "k", "l", "m",
              "n", "o", "p", "q", "r", "s", "t", "u", "v", "w", "x", "y", "z"}

Digits == {"0", "1", "2", "3", "4", "5", "6", "7", "8", "9"}

validDBNameFirstOnly(dbName) ==
  Len(dbName) >= 1 /\ dbName[1] \in LowerCase

\* kivik.go:182 ^[a-z][a-z0-9_$()+/-]*$
validDBName(dbName) ==
  /\ Len(dbName) >= 1
  /\ dbName[1] \in LowerCase
  /\ \A i \in 2 .. Len(dbName) :
       dbName[i] \in LowerCase \cup Digits \cup {"_", "$", "(", ")", "+", "/", "-"}

RECURSIVE TrimLeft(_, _)
\* strings.TrimLeft(s, cutset)
TrimLeft(s, cutset) ==
  IF s # <<>> /\ Head(s) \in cutset THEN TrimLeft(Tail(s), cutset) ELSE s

\* pouchdb.go:106-114. The URL of a remote database is the DSN followed by
\* the name without its leading slashes; the DSNs above all name the root of
\* the same server, so the path after the DSN identifies the database.
dbURL(c, db) ==
  IF c.dsn = NilURL THEN db ELSE TrimLeft(db, {"/"})

\* pouchdb.go:119-132. c.opts is made empty at pouchdb.go:45 and written
\* nowhere, so only the options passed are merged.
options(c, opts) ==
  [opts |-> mergeFrom(NoOptions, opts, 1), err |-> Nil]

\* PouchDB's skip_setup option is read as a JavaScript truth value.
SkipSetup(opts) ==
  "skip_setup" \in DOMAIN opts /\ opts["skip_setup"] = "true"

\* c.pouch.New(url, opts).Info(ctx) on the store the client addresses.
\* Opening a local database creates it (pouchdb.go:138-140); opening a
\* remote one creates it unless skip_setup is set, and then a missing
\* database answers 404. fault is a transport failure of this call.
PouchInfo(c, url, opts, fault, store) ==
  IF ~isRemote(c) THEN [err |-> Nil, store |-> store \cup {url}]
  ELSE IF fault THEN [err |-> "InternalServerError", store |-> store]
  ELSE IF SkipSetup(opts)
  THEN [err |-> IF url \in store THEN Nil ELSE "NotFound", store |-> store]
  ELSE [err |-> Nil, store |-> store \cup {url}]

\* c.pouch.New(url, opts).Destroy(ctx, nil)
PouchDestroy(c, url, opts, fault, store) ==
  IF ~isRemote(c) THEN [err |-> Nil, store |-> store \ {url}]
  ELSE IF fault THEN [err |-> "InternalServerError", store |-> store]
  ELSE IF SkipSetup(opts) /\ url \notin store
  THEN [err |-> "NotFound", store |-> store]
  ELSE [err |-> Nil, store |-> store \ {url}]

(***************************************************************************)
(* The PouchDB driver client (pouchdb.go:138-202).  Each operator returns  *)
(* what the method returns and the store it leaves.                        *)
(***************************************************************************)

\* pouchdb.go:141-154
DBExistsContext(c, dbName, opts, fault, store) ==
  LET o == options(c, <<opts, [skip_setup |-> "true"]>>)
      info == PouchInfo(c, dbURL(c, dbName), o.opts, fault, store)
  IN  IF o.err # Nil THEN [exists |-> FALSE, err |-> o.err, store |-> store]
      ELSE IF info.err = Nil THEN [exists |-> TRUE, err |-> Nil, store |-> info.store]
      ELSE IF info.err = "NotFound" THEN [exists |-> FALSE, err |-> Nil, store |-> info.store]
      ELSE [exists |-> FALSE, err |-> info.err, store |-> info.store]

\* pouchdb.go:156-168
CreateDBContext(c, dbName, opts, fault1, fault2, store) ==
  LET check == IF isRemote(c) THEN DBExistsContext(c, dbName, opts, fault1, store)
               ELSE [exists |-> FALSE, err |-> Nil, store |-> store]
      o == options(c, <<opts>>)
      info == PouchInfo(c, dbURL(c, dbName), o.opts, fault2, check.store)
  IN  IF isRemote(c) /\ check.exists
      THEN [err |-> "PreconditionFailed", store |-> check.store]
      ELSE IF o.err # Nil THEN [err |-> o.err, store |-> check.store]
      ELSE [err |-> info.err, store |-> info.store]

\* pouchdb.go:170-184
DestroyDBContext(c, dbName, opts, fault1, fault2, store) ==
  LET check == DBExistsContext(c, dbName, opts, fault1, store)
      o == options(c, <<opts>>)
      gone == PouchDestroy(c, dbURL(c, dbName), o.opts, fault2, check.store)
  IN  IF check.err # Nil THEN [err |-> check.err, store |-> check.store]
      ELSE IF ~check.exists THEN [err |-> "NotFound", store |-> check.store]
      ELSE IF o.err # Nil THEN [err |-> o.err, store |-> check.store]
      ELSE [err |-> gone.err, store |-> gone.store]

\* pouchdb.go:186-202
DBContext(c, dbName, opts, fault, store) ==
  LET check == DBExistsContext(c, dbName, opts, fault, store)
      o == options(c, <<opts>>)
  IN  IF check.err # Nil THEN [db |-> "nil", err |-> check.err, store |-> check.store]
      ELSE IF ~check.exists THEN [db |-> "nil", err |-> "NotFound", store |-> check.store]
      ELSE IF o.err # Nil THEN [db |-> "nil", err |-> o.err, store |-> check.store]
      ELSE [db |-> "db", err |-> Nil, store |-> check.store]

(***************************************************************************)
(* The facade's database operations on a PouchDB client (kivik.go:84-100,  *)
(* 167-213).  result.before is the store when the call was made, and       *)
(* result.fault whether a transport failure disturbed the call.            *)
(***************************************************************************)
Store == IF isRemote(client.driverClient) THEN remoteDBs ELSE localDBs

SetStore(store) ==
  IF isRemote(client.driverClient)
  THEN remoteDBs' = store /\ UNCHANGED localDBs
  ELSE localDBs' = store /\ UNCHANGED remoteDBs

Returned(op, dbName, opts, err, val, fault) ==
  result' = [op |-> op, arg |-> <<dbName, opts>>, err |-> err, val |-> val,
             before |-> Store, fault |-> fault]

Driven(method, dbName, opts, err) ==
  calls' = <<[method |-> method, target |-> client.driverClient.driver,
              arg |-> <<dbName, opts>>, ret |-> err]>>

\* kivik.go:91-100
ClientDBContext(dbName, opts, fault) ==
  LET m == mergeOptions(opts)
      r == DBContext(client.driverClient, dbName, m.opts, fault, Store)
  IN  /\ client.valid
      /\ IF m.err # Nil
         THEN /\ Returned("DB", dbName, opts, m.err, "nil", FALSE)
              /\ calls' = <<>>
              /\ UNCHANGED storeVars
         ELSE /\ Returned("DB", dbName, opts, r.err, r.db, fault)
              /\ Driven("DBContext", dbName, m.opts, r.err)
              /\ SetStore(r.store)
      /\ UNCHANGED <<drivers, client>>
      /\ UNCHANGED <<concVars, serverVars, memoryVars>>

\* kivik.go:173-179
ClientDBExistsContext(dbName, opts, fault) ==
  LET m == mergeOptions(opts)
      r == DBExistsContext(client.driverClient, dbName, m.opts, fault, Store)
  IN  /\ client.valid
      /\ IF m.err # Nil
         THEN /\ Returned("DBExists", dbName, opts, m.err, FALSE, FALSE)
              /\ calls' = <<>>
              /\ UNCHANGED storeVars
         ELSE /\ Returned("DBExists", dbName, opts, r.err, r.exists, fault)
              /\ Driven("DBExistsContext", dbName, m.opts, r.err)
              /\ SetStore(r.store)
      /\ UNCHANGED <<drivers, client>>
      /\ UNCHANGED <<concVars, serverVars, memoryVars>>

\* kivik.go:190-199
ClientCreateDBContext(dbName, opts, fault1, fault2) ==
  LET m == mergeOptions(opts)
      r == CreateDBContext(client.driverClient, dbName, m.opts, fault1, fault2, Store)
  IN  /\ client.valid
      /\ IF m.err # Nil
         THEN /\ Returned("CreateDB", dbName, opts, m.err, "none", FALSE)
              /\ calls' = <<>>
              /\ UNCHANGED storeVars
         ELSE IF ~validDBName(dbName)
         THEN /\ Returned("CreateDB", dbName, opts, "BadRequest", "none", FALSE)
              /\ calls' = <<>>
              /\ UNCHANGED storeVars
         ELSE /\ Returned("CreateDB", dbName, opts, r.err, "none", fault1 \/ fault2)
              /\ Driven("CreateDBContext", dbName, m.opts, r.err)
              /\ SetStore(r.store)
      /\ UNCHANGED <<drivers, client>>
      /\ UNCHANGED <<concVars, serverVars, memoryVars>>

\* kivik.go:207-213
ClientDestroyDBContext(dbName, opts, fault1, fault2) ==
  LET m == mergeOptions(opts)
      r == DestroyDBContext(client.driverClient, dbName, m.opts, fault1, fault2, Store)
  IN  /\ client.valid
      /\ IF m.err # Nil
         THEN /\ Returned("DestroyDB", dbName, opts, m.err, "none", FALSE)
              /\ calls' = <<>>
              /\ UNCHANGED storeVars
         ELSE /\ Returned("DestroyDB", dbName, opts, r.err, "none", fault1 \/ fault2)
              /\ Driven("DestroyDBContext", dbName, m.opts, r.err)
              /\ SetStore(r.store)
      /\ UNCHANGED <<drivers, client>>
      /\ UNCHANGED <<concVars, serverVars, memoryVars>>

\* The clients kivik.New("pouch", dsn) returns once pouchdb.go:22-24 has
\* registered the driver: a local one (empty DSN) and a remote one.
PouchClients ==
  {[valid |-> TRUE, dsn |-> dsn, driverName |-> "pouch",
    driverClient |-> NewClientContext(dsn, TRUE, {}).client] :
     dsn \in {d \in DSNs : NewClientContext(d, TRUE, {}).err = Nil}}

\* The option sets passed to the lifecycle calls of SpecDB.
LifecycleOpts == {<<>>, <<[skip_setup |-> "true"]>>}

\* The valid names the lifecycle calls other than CreateDB are made with.
ValidNames == {n \in Names : validDBName(n)}

InitDB ==
  /\ drivers = [n \in {"pouch"} |-> "PouchDriver"]
  /\ client \in PouchClients
  /\ result = [op |-> "none", arg |-> <<<<>>, <<>>>>, err |-> Nil, val |-> "none",
               before |-> {}, fault |-> FALSE]
  /\ calls = <<>>
  /\ InitOthers

NextDB ==
  \/ \E n \in Names, o \in LifecycleOpts, f1 \in BOOLEAN, f2 \in BOOLEAN :
       ClientCreateDBContext(n, o, f1, f2)
  \/ \E n \in ValidNames, o \in LifecycleOpts, f1 \in BOOLEAN, f2 \in BOOLEAN :
       ClientDestroyDBContext(n, o, f1, f2)
  \/ \E n \in ValidNames, o \in LifecycleOpts, f \in BOOLEAN :
       ClientDBExistsContext(n, o, f)
  \/ \E n \in ValidNames, o \in LifecycleOpts, f \in BOOLEAN :
       ClientDBContext(n, o, f)

SpecDB == InitDB /\ [][NextDB]_vars

NextOptions ==
  \E n \in {<<"a">>}, o \in OptSeqs, f \in BOOLEAN : ClientDBContext(n, o, f)

SpecOptions == InitDB /\ [][NextOptions]_vars

(***************************************************************************)
(* Concurrent callers of client.CreateDBContext on one remote client.  A   *)
(* call is two requests to the server, and other callers' requests may     *)
(* come between them: the existence check (pouchdb.go:157-161) and the     *)
(* opening of the database (pouchdb.go:162-167).                           *)
(***************************************************************************)
Callers == 1 .. NumCallers

RemoteClient == NewClientContext("http://host/", TRUE, {}).client

ConcNames == {<<"a">>, <<"a", "0">>}

Idle == [pc |-> "idle", name |-> <<>>, exists |-> FALSE, checkErr |-> Nil, err |-> Nil]

\* pouchdb.go:157-161: exists, _ := c.DBExistsContext(...); the error of the
\* check is discarded.
CreateCheck(p, dbName, fault) ==
  LET check == DBExistsContext(RemoteClient, dbName, NoOptions, fault, remoteDBs)
  IN  /\ callers[p].pc = "idle"
      /\ callers' = [callers EXCEPT ![p] =
                       [pc |-> IF check.exists THEN "done" ELSE "checked",
                        name |-> dbName, exists |-> check.exists, checkErr |-> check.err,
                        err |-> IF check.exists THEN "PreconditionFailed" ELSE Nil]]
      /\ remoteDBs' = check.store
      /\ UNCHANGED <<facadeVars, localDBs, serverVars, memoryVars>>

\* pouchdb.go:162-167
CreateOpen(p, fault) ==
  LET o == options(RemoteClient, <<NoOptions>>)
      info == PouchInfo(RemoteClient, dbURL(RemoteClient, callers[p].name), o.opts,
                        fault, remoteDBs)
  IN  /\ callers[p].pc = "checked"
      /\ callers' = [callers EXCEPT ![p].pc = "done", ![p].err = info.err]
      /\ remoteDBs' = info.store
      /\ UNCHANGED <<facadeVars, localDBs, serverVars, memoryVars>>

InitConc ==
  /\ drivers = [n \in {"pouch"} |-> "PouchDriver"]
  /\ client = [valid |-> TRUE, dsn |-> "http://host/", driverName |-> "pouch",
               driverClient |-> RemoteClient]
  /\ result = NoResult
  /\ calls = <<>>
  /\ localDBs = {} /\ remoteDBs = {}
  /\ callers = [p \in Callers |-> Idle]
  /\ config = <<>> /\ authReq = <<>> /\ response = <<>>
  /\ docs = {} /\ rows = <<>> /\ ids = <<>> /\ msg = <<>> /\ present = {} /\ phase = "none"

NextConc ==
  \/ \E p \in Callers, n \in ConcNames, f \in BOOLEAN : CreateCheck(p, n, f)
  \/ \E p \in Callers, f \in BOOLEAN : CreateOpen(p, f)

SpecConc == InitConc /\ [][NextConc]_vars

(***************************************************************************)
(* The server: the basic authenticator (auth/basic/basic.go) in front of   *)
(* the user store, and the configuration the server suite expects          *)
(* (test/server.go).                                                       *)
(***************************************************************************)
Usernames == {"alice", "bob"}

Passwords == {"pw1", "pw2"}

\* The users the store knows, with their passwords.
Users == [u \in {"alice"} |-> "pw1"]

NoUserContext == [Name |-> ""]

\* The requests: no Authorization header, one that is not well-formed basic
\* credentials, and basic credentials.
Requests ==
  {[auth |-> "none", username |-> "", password |-> ""],
   [auth |-> "malformed", username |-> "", password |-> ""]}
  \cup {[auth |-> "basic", username |-> u, password |-> p] : u \in Usernames, p \in Passwords}

\* net/http (*Request).BasicAuth
BasicAuth(r) ==
  IF r.auth = "basic" THEN [username |-> r.username, password |-> r.password, ok |-> TRUE]
  ELSE [username |-> "", password |-> "", ok |-> FALSE]

\* store.Validate(ctx, username, password) of the user store; fault is a
\* failure of the store itself.
Validate(username, password, fault) ==
  IF fault THEN [user |-> NoUserContext, err |-> "InternalServerError"]
  ELSE IF username \in DOMAIN Users /\ Users[username] = password
  THEN [user |-> [Name |-> username], err |-> Nil]
  ELSE [user |-> NoUserContext, err |-> "Unauthorized"]

AuthenticateUnchecked(r, fault) ==
  LET cred == BasicAuth(r)
      v == Validate(cred.username, cred.password, fault)
  IN  /\ authReq' = [op |-> "Authenticate", request |-> r,
                     validated |-> <<[username |-> cred.username, password |-> cred.password,
                                      user |-> v.user, err |-> v.err]>>,
                     user |-> v.user, err |-> v.err]
      /\ UNCHANGED <<config, response>>
      /\ UNCHANGED <<facadeVars, storeVars, concVars, memoryVars>>

\* basic.go:25-32
Authenticate(r, fault) ==
  LET cred == BasicAuth(r)
      v == Validate(cred.username, cred.password, fault)
  IN  /\ IF ~cred.ok
         THEN authReq' = [op |-> "Authenticate", request |-> r, validated |-> <<>>,
                          user |-> NoUserContext, err |-> "Unauthorized"]
         ELSE authReq' = [op |-> "Authenticate", request |-> r,
                          validated |-> <<[username |-> cred.username, password |-> cred.password,
                                           user |-> v.user, err |-> v.err]>>,
                          user |-> v.user, err |-> v.err]
      /\ UNCHANGED <<config, response>>
      /\ UNCHANGED <<facadeVars, storeVars, concVars, memoryVars>>

\* The error-to-status mapping of the server.
StatusOf(err) ==
  CASE err = Nil -> 200
    [] err = "BadRequest" -> 400
    [] err = "Unauthorized" -> 401
    [] err = "NotFound" -> 404
    [] err = "Conflict" -> 409
    [] err = "PreconditionFailed" -> 412
    [] err = "NotImplemented" -> 501
    [] OTHER -> 500

\* test/server.go:13 Config/Admin/GetAll.expected_sections
ExpectedSections == {"log"}

\* test/server.go:14 Config/Admin/GetSection.sections
GetSectionSections == {"log", "chicken"}

\* test/server.go:15-16 Config/Admin/GetSection/<section>.keys; no status is
\* set for either section, so both fetches are expected to succeed.
ExpectedKeys(section) ==
  CASE section = "log" -> {"capacity"}
    [] section = "chicken" -> {}

\* test/server.go:17 Config/Admin/GetItem.items
GetItemItems == {<<"log", "capacity">>, <<"log", "foobar">>, <<"logx", "level">>}

ExpectedItemStatusAllFound(item) == 200

\* test/server.go:18-19 Config/Admin/GetItem/<item>.status; an item without
\* a status is expected to succeed.
ExpectedItemStatus(item) ==
  CASE item = <<"log", "foobar">> -> 404
    [] item = <<"logx", "level">> -> 404
    [] OTHER -> 200

\* test/server.go:20 Config/Admin/GetItem/log.capacity.expected
ExpectedItemValue(item) ==
  CASE item = <<"log", "capacity">> -> "10"

Sections == {"log", "logx", "chicken"}

Keys == {"capacity", "foobar", "level"}

Values == {"10", "20"}

\* The configuration the suite's server runs with.
ServerConfig == [s \in {"log"} |-> [k \in {"capacity"} |-> "10"]]

NoResponse == [op |-> "none", section |-> "", key |-> "", status |-> 0, body |-> ""]

\* GET /_config
GetConfig ==
  /\ response' = [op |-> "GetAll", section |-> "", key |-> "", status |-> StatusOf(Nil),
                  body |-> DOMAIN config]
  /\ UNCHANGED <<config, authReq>>
  /\ UNCHANGED <<facadeVars, storeVars, concVars, memoryVars>>

\* GET /_config/{section}: a section that is not configured has no keys.
GetSection(section) ==
  /\ response' = [op |-> "GetSection", section |-> section, key |-> "", status |-> StatusOf(Nil),
                  body |-> IF section \in DOMAIN config THEN DOMAIN config[section] ELSE {}]
  /\ UNCHANGED <<config, authReq>>
  /\ UNCHANGED <<facadeVars, storeVars, concVars, memoryVars>>

\* GET /_config/{section}/{key}
GetItem(section, key) ==
  /\ IF section \in DOMAIN config /\ key \in DOMAIN config[section]
     THEN response' = [op |-> "GetItem", section |-> section, key |-> key,
                       status |-> StatusOf(Nil), body |-> config[section][key]]
     ELSE response' = [op |-> "GetItem", section |-> section, key |-> key,
                       status |-> StatusOf("NotFound"), body |-> ""]
  /\ UNCHANGED <<config, authReq>>
  /\ UNCHANGED <<facadeVars, storeVars, concVars, memoryVars>>

\* PUT /_config/{section}/{key}: writes are not supported and are rejected.
SetItem(section, key, value) ==
  /\ response' = [op |-> "SetItem", section |-> section, key |-> key,
                  status |-> StatusOf("NotImplemented"), body |-> value]
  /\ UNCHANGED <<config, authReq>>
  /\ UNCHANGED <<facadeVars, storeVars, concVars, memoryVars>>

InitServer ==
  /\ drivers = <<>> /\ client = NoClient /\ result = NoResult /\ calls = <<>>
  /\ localDBs = {} /\ remoteDBs = {}
  /\ callers = <<>>
  /\ config = ServerConfig
  /\ authReq = [op |-> "none", request |-> [auth |-> "none", username |-> "", password |-> ""],
                validated |-> <<>>, user |-> NoUserContext, err |-> Nil]
  /\ response = NoResponse
  /\ docs = {} /\ rows = <<>> /\ ids = <<>> /\ msg = <<>> /\ present = {} /\ phase = "none"

NextServer ==
  \/ \E r \in Requests, fault \in BOOLEAN : Authenticate(r, fault)
  \/ GetConfig
  \/ \E s \in Sections : GetSection(s)
  \/ \E s \in Sections, k \in Keys : GetItem(s, k)
  \/ \E s \in Sections, k \in Keys, v \in Values : SetItem(s, k, v)

SpecServer == InitServer /\ [][NextServer]_vars

(***************************************************************************)
(* The memory driver's database and TestAllDocs                            *)
(* (driver/memory/alldocs_test.go).  Document ids are numbers, ordered as  *)
(* the ids are.                                                            *)
(***************************************************************************)
DocIDs == 1 .. MaxDocs

RECURSIVE Ascending(_)
\* The elements of a set of ids in ascending order.
Ascending(S) ==
  IF S = {} THEN <<>>
  ELSE LET least == CHOOSE x \in S : \A y \in S : x <= y
       IN  <<least>> \o Ascending(S \ {least})

\* db.Put of a new document.
Put(id) ==
  /\ id \notin docs
  /\ docs' = docs \cup {id}
  /\ UNCHANGED <<rows, ids, msg, present, phase>>
  /\ UNCHANGED <<facadeVars, storeVars, concVars, serverVars>>

\* db.AllDocs(ctx, nil) of the memory driver: the rows of the documents
\* present at the call, ascending by id.
AllDocs == [rows |-> Ascending(docs), err |-> ""]

\* alldocs_test.go:33-46
TestAllDocsCall ==
  LET r == AllDocs
  IN  /\ phase \in {"none", "done"}
      /\ msg' = <<r.err, "">>
      /\ ids' = <<>>
      /\ present' = docs
      /\ IF r.err # ""
         THEN rows' = <<>> /\ phase' = "done"
         ELSE rows' = r.rows /\ phase' = "rows"
      /\ UNCHANGED docs
      /\ UNCHANGED <<facadeVars, storeVars, concVars, serverVars>>

\* rows.Next(row): the next row, or io.EOF after the last.
RowsNext == IF rows = <<>> THEN [e |-> "EOF", id |-> 0] ELSE [e |-> "", id |-> Head(rows)]

TestAllDocsNextEOFIsError ==
  LET n == RowsNext
  IN  /\ phase = "rows"
      /\ IF n.e # ""
         THEN /\ msg' = <<msg[1], n.e>>
              /\ phase' = "done"
              /\ UNCHANGED <<rows, ids>>
         ELSE /\ ids' = Append(ids, n.id)
              /\ rows' = Tail(rows)
              /\ UNCHANGED <<msg, phase>>
      /\ UNCHANGED <<docs, present>>
      /\ UNCHANGED <<facadeVars, storeVars, concVars, serverVars>>

\* alldocs_test.go:47-56: one turn of the loop over the rows.
TestAllDocsNext ==
  LET n == RowsNext
  IN  /\ phase = "rows"
      /\ IF n.e # ""
         THEN /\ msg' = <<msg[1], IF n.e # "EOF" THEN n.e ELSE msg[2]>>
              /\ phase' = "done"
              /\ UNCHANGED <<rows, ids>>
         ELSE /\ ids' = Append(ids, n.id)
              /\ rows' = Tail(rows)
              /\ UNCHANGED <<msg, phase>>
      /\ UNCHANGED <<docs, present>>
      /\ UNCHANGED <<facadeVars, storeVars, concVars, serverVars>>

InitMemory ==
  /\ drivers = <<>> /\ client = NoClient /\ result = NoResult /\ calls = <<>>
  /\ localDBs = {} /\ remoteDBs = {}
  /\ callers = <<>>
  /\ config = <<>> /\ authReq = <<>> /\ response = <<>>
  /\ docs = {} /\ rows = <<>> /\ ids = <<>> /\ msg = <<"", "">> /\ present = {}
  /\ phase = "none"

NextMemory ==
  \/ \E id \in DocIDs : Put(id)
  \/ TestAllDocsCall
  \/ TestAllDocsNext

SpecMemory == InitMemory /\ [][NextMemory]_vars

(***************************************************************************)
(* Claims about the facade, checked under SpecFacade.  A step of a facade  *)
(* call is recognised by the result it leaves: Register is the only step   *)
(* that returns nothing, and the only one that changes drivers.            *)
(***************************************************************************)

\* C1: NewContext(driverName, dsn) with a name that is not registered at the
\* time of the lookup fails with the unknown-driver error naming that driver,
\* returns no client and invokes no constructor; with a registered name it
\* invokes exactly that name's constructor with the given dsn, and returns
\* either the constructor's error and no client, or a client whose Driver()
\* and DSN() are the driverName and dsn passed in.
C1_NewContext ==
  [][(result'.op = "NewContext" /\ drivers' = drivers) =>
       LET driverName == result'.arg[1]
           dsn == result'.arg[2]
       IN  IF driverName \notin DOMAIN drivers
           THEN /\ result'.err = unknownDriver(driverName)
                /\ \A other \in DriverNames \ {driverName} : result'.err # unknownDriver(other)
                /\ result'.val = NoClient
                /\ calls' = <<>>
           ELSE /\ Len(calls') = 1
                /\ calls'[1].method = "NewClientContext"
                /\ calls'[1].target = drivers[driverName]
                /\ calls'[1].arg = dsn
                /\ result'.err = calls'[1].ret
                /\ IF calls'[1].ret # Nil
                   THEN result'.val = NoClient
                   ELSE /\ result'.val.valid
                        /\ result'.val.driverClient = calls'[1].val
                        /\ Driver(result'.val) = driverName
                        /\ DSN(result'.val) = dsn]_vars

\* C1 witness: with only "pouch" registered, NewContext has returned a client
\* for a data source name that carries credentials.
C1_Witness ==
  /\ result.op = "NewContext"
  /\ result.err = Nil
  /\ result.val.valid
  /\ DOMAIN drivers = {"pouch"}
  /\ result.val.driverClient.driver = "PouchDriver"
  /\ Driver(result.val) = "pouch"
  /\ DSN(result.val) = "http://user:pw@host/"

\* C3 as stated: a call for an optional capability on a client whose driver
\* client lacks it always fails with NotImplemented and reaches no driver
\* method; on one that has it the call is forwarded and the driver's result
\* is returned unchanged.
C3_Original ==
  [][(result'.op \in CapabilityOps /\ drivers' = drivers) =>
       IF CapabilityOf(result'.op) \notin client.driverClient.caps
       THEN result'.err = "NotImplemented" /\ calls' = <<>>
       ELSE /\ Len(calls') = 1
            /\ calls'[1].method = MethodOf(result'.op)
            /\ calls'[1].arg = result'.arg
            /\ result'.err = calls'[1].ret
            /\ result'.val = calls'[1].val]_vars

\* UUIDs with a negative count: rejected before the capability is probed.
NegativeCount(r) == r.op = "UUIDs" /\ r.arg < 0

\* C3 amended: as C3, except that UUIDs with a negative count fails with
\* BadRequest, whether or not the driver client generates UUIDs, and reaches
\* no driver method.
C3_Capabilities ==
  [][(result'.op \in CapabilityOps /\ drivers' = drivers) =>
       IF NegativeCount(result')
       THEN result'.err = "BadRequest" /\ calls' = <<>>
       ELSE IF CapabilityOf(result'.op) \notin client.driverClient.caps
       THEN result'.err = "NotImplemented" /\ calls' = <<>>
       ELSE /\ Len(calls') = 1
            /\ calls'[1].method = MethodOf(result'.op)
            /\ calls'[1].target = client.driverClient.driver
            /\ calls'[1].arg = result'.arg
            /\ result'.err = calls'[1].ret
            /\ result'.val = calls'[1].val]_vars

\* C3 witness: a capability call was refused on a client lacking it.
C3_Witness ==
  /\ result.op = "Log"
  /\ result.err = "NotImplemented"
  /\ calls = <<>>
  /\ client.valid
  /\ client.driverClient.caps = {"UUIDer"}

(***************************************************************************)
(* Claims about option merging (SpecOptions) and the database lifecycle    *)
(* (SpecDB, SpecConc).                                                     *)
(***************************************************************************)
C2_Keys(in) == UNION {DOMAIN in[i] : i \in 1 .. Len(in)}

C2_Last(in, k) ==
  CHOOSE i \in 1 .. Len(in) :
    k \in DOMAIN in[i] /\ \A j \in (i + 1) .. Len(in) : k \notin DOMAIN in[j]

\* C2: the option set handed to the driver holds exactly the union of the
\* keys of the option sets passed, each key with the value of the last set
\* that contains it, whatever that value is.
C2_Original ==
  (result.op = "DB" /\ Len(calls) = 1) =>
    LET in == result.arg[2]
        out == calls[1].arg[2]
    IN  /\ DOMAIN out = C2_Keys(in)
        /\ \A k \in C2_Keys(in) : out[k] = in[C2_Last(in, k)][k]

C4_URL == dbURL(client.driverClient, result.arg[1])

\* C4: CreateDatabase(name), undisturbed by transport failures, fails with
\* PreconditionFailed and leaves the database in place whenever a database
\* of that name exists, and succeeds only when none exists, on local and on
\* remote clients.
C4_Original ==
  (result.op = "CreateDB" /\ validDBName(result.arg[1]) /\ ~result.fault) =>
    /\ C4_URL \in result.before => (result.err = "PreconditionFailed" /\ Store = result.before)
    /\ result.err = Nil => C4_URL \notin result.before

\* C5: undisturbed by transport failures, DestroyDatabase(name) of a database
\* that does not exist fails with NotFound and changes nothing; of one that
\* exists it removes it; and for a database that does not exist (any more)
\* DatabaseExists returns false and the handle request fails with NotFound.
C5_Original ==
  ~result.fault =>
    /\ (result.op = "DestroyDB" /\ C4_URL \notin result.before) =>
         (result.err = "NotFound" /\ Store = result.before)
    /\ (result.op = "DestroyDB" /\ C4_URL \in result.before) =>
         (result.err = Nil /\ Store = result.before \ {C4_URL})
    /\ (result.op = "DBExists" /\ C4_URL \notin result.before) =>
         (result.err = Nil /\ result.val = FALSE /\ Store = result.before)
    /\ (result.op = "DB" /\ C4_URL \notin result.before) =>
         (result.err = "NotFound" /\ Store = result.before)

\* The names the pattern ^[a-z][a-z0-9_$()+/-]*$ of the claim matches.
C9_Matches(name) ==
  /\ name # <<>>
  /\ \A i \in DOMAIN name :
       \/ name[i] \in LowerCase
       \/ i > 1 /\ name[i] \in Digits \cup {"_", "$", "(", ")", "+", "/", "-"}

\* C9: the facade's CreateDB with a name the pattern does not match fails
\* with BadRequest, calls no driver method and leaves the databases as they
\* were; with a matching name it calls the driver's CreateDBContext exactly
\* once, with that name and the merged options, and returns its result.
C9_CreateDBValidates ==
  result.op = "CreateDB" =>
    IF ~C9_Matches(result.arg[1])
    THEN /\ result.err = "BadRequest"
         /\ calls = <<>>
         /\ Store = result.before
    ELSE /\ Len(calls) = 1
         /\ calls[1].method = "CreateDBContext"
         /\ calls[1].arg = <<result.arg[1], mergeOptions(result.arg[2]).opts>>
         /\ result.err = calls[1].ret

\* C9 witness: an invalid name was refused while a database existed.
C9_Witness ==
  /\ result.op = "CreateDB"
  /\ result.arg[1] = <<"a", "A">>
  /\ result.err = "BadRequest"
  /\ calls = <<>>
  /\ Store = {<<"a">>, <<"a", "/", "b">>}

Succeeded(n) == {p \in Callers : callers[p].pc = "done" /\ callers[p].name = n /\ callers[p].err = Nil}

\* C10: among concurrent CreateDatabase calls for one name on a remote
\* client, from a state where the database does not exist, at most one
\* succeeds and every other fails with PreconditionFailed; and no create
\* succeeds whose existence check failed with an error.
C10_Original ==
  /\ \A n \in ConcNames : Cardinality(Succeeded(n)) <= 1
  /\ \A n \in ConcNames : \A p \in Callers :
       (Succeeded(n) # {} /\ callers[p].pc = "done" /\ callers[p].name = n
          /\ p \notin Succeeded(n) /\ callers[p].checkErr = Nil)
         => callers[p].err = "PreconditionFailed"
  /\ \A p \in Callers :
       (callers[p].pc = "done" /\ callers[p].checkErr # Nil) => callers[p].err # Nil

(***************************************************************************)
(* Claims about the server (SpecServer) and the memory driver's AllDocs    *)
(* (SpecMemory).                                                           *)
(***************************************************************************)
C6_Configured(section, key) ==
  section \in DOMAIN ServerConfig /\ key \in DOMAIN ServerConfig[section]

C6_ReadOnly ==
  /\ config = ServerConfig
  /\ response.op = "SetItem" => response.status # 200

C6_Items ==
  response.op = "GetItem" =>
    /\ ~C6_Configured(response.section, response.key) => response.status = 404
    /\ (response.section = "log" /\ response.key = "capacity") =>
         (response.status = 200 /\ response.body = "10")

C7_BasicAuth ==
  authReq.op = "Authenticate" =>
    IF authReq.request.auth # "basic"
    THEN /\ authReq.err = "Unauthorized"
         /\ authReq.user = NoUserContext
         /\ authReq.validated = <<>>
    ELSE /\ Len(authReq.validated) = 1
         /\ authReq.validated[1].username = authReq.request.username
         /\ authReq.validated[1].password = authReq.request.password
         /\ authReq.err = authReq.validated[1].err
         /\ authReq.user = authReq.validated[1].user
         /\ authReq.err = Nil => authReq.user.Name = authReq.request.username
         /\ (authReq.request.username \notin DOMAIN Users
              \/ Users[authReq.request.username] # authReq.request.password)
            => authReq.err # Nil
         /\ authReq.validated[1].err = "Unauthorized" => authReq.user = NoUserContext

\* C7 witness: a request without credentials was refused, unvalidated.
C7_Witness ==
  /\ authReq.op = "Authenticate"
  /\ authReq.request.auth = "none"
  /\ authReq.err = "Unauthorized"
  /\ authReq.validated = <<>>

C8_Set(seq) == {seq[i] : i \in 1 .. Len(seq)}

====
